---- MODULE Spec2Model ----
(***************************************************************************)
(* Model of the user CRUD service of src/main.go: the users table behind   *)
(* the gorm handle `db`, the four /api/users handlers run one goroutine    *)
(* per request, and main's interrupt handling.                             *)
(*                                                                         *)
(* Strings are sequences of characters; EAcute stands for a character      *)
(* whose UTF-8 encoding takes two bytes (Go's len() counts bytes).         *)
(*                                                                         *)
(* The store is the users table as gorm and PostgreSQL keep it: Create     *)
(* inserts a non-zero ID as given and draws a zero ID from the sequence,   *)
(* Save with a non-zero ID updates all columns and inserts the row when    *)
(* none matched, Delete of a missing row is no error, and every statement  *)
(* fails once the connection pool is closed.                               *)
(***************************************************************************)
EXTENDS Integers, Sequences, FiniteSets, Bags, TLC

\* ------------------------------------------------------------------ bounds
MaxSeq == 1         \* createUser stops drawing from the id sequence at MaxSeq
Workers == 2        \* request goroutines that can be in flight together

\* -------------------------------------------------------------- characters
Lower == {"a","b","c","d","e","f","g","h","i","j","k","l","m",
          "n","o","p","q","r","s","t","u","v","w","x","y","z"}
Upper == {"A","B","C","D","E","F","G","H","I","J","K","L","M",
          "N","O","P","Q","R","S","T","U","V","W","X","Y","Z"}
Letter == Lower \cup Upper
DigitSeq == <<"0","1","2","3","4","5","6","7","8","9">>
Digit == {DigitSeq[i] : i \in 1..10}
EAcute == "U+00E9"

\* bytes of the UTF-8 encoding of one character
ByteWidth(c) == IF c = EAcute THEN 2 ELSE 1

RECURSIVE ByteLen(_)
\* Go's len(s) of a string: the number of bytes
ByteLen(s) == IF s = <<>> THEN 0 ELSE ByteWidth(Head(s)) + ByteLen(Tail(s))

\* the character classes of the pattern of isValidEmail
LocalClass == Letter \cup Digit \cup {".", "_", "%", "+", "-"}
DomainClass == Letter \cup Digit \cup {".", "-"}

\* ^[a-zA-Z0-9._%+-]+@[a-zA-Z0-9.-]+\.[a-zA-Z]{2,}$ : the "@" at i, the dot
\* that starts the suffix at j
isValidEmail(email) ==
    \E i \in 1..Len(email), j \in 1..Len(email) :
        /\ email[i] = "@"
        /\ i > 1
        /\ \A k \in 1..(i-1) : email[k] \in LocalClass
        /\ email[j] = "."
        /\ j > i + 1
        /\ \A k \in (i+1)..(j-1) : email[k] \in DomainClass
        /\ Len(email) - j >= 2
        /\ \A k \in (j+1)..Len(email) : email[k] \in Letter

DigitVal(c) == CHOOSE v \in 0..9 : DigitSeq[v+1] = c

RECURSIVE DigitsVal(_)
DigitsVal(s) == IF s = <<>> THEN 0
                ELSE 10 * DigitsVal(SubSeq(s, 1, Len(s)-1)) + DigitVal(s[Len(s)])

\* strconv.Atoi: an optional sign and one or more decimal digits
Atoi(p) ==
    LET signed == p # <<>> /\ p[1] \in {"+", "-"}
        digits == IF signed THEN Tail(p) ELSE p
        ok     == digits # <<>> /\ \A k \in 1..Len(digits) : digits[k] \in Digit
    IN  [err |-> ~ok,
         val |-> IF ~ok THEN 0
                 ELSE IF signed /\ p[1] = "-" THEN 0 - DigitsVal(digits)
                 ELSE DigitsVal(digits)]

\* ------------------------------------------------------------------ inputs
EmptyStr == <<>>
Bo  == <<"B","o">>
Bob == <<"B","o","b">>
TwoAccents == <<EAcute, EAcute>>

AnnMail == <<"a","n","n","@","e","x","a","m","p","l","e",".","c","o","m">>
BobMail == <<"b",".","o","+","1","@","x","-","y",".","d","e">>
NotAnEmail == <<"n","o","t","-","a","n","-","e","m","a","i","l">>
ShortTld == <<"a","@","b",".","c">>
EmailInputs == {EmptyStr, AnnMail, BobMail, NotAnEmail, ShortTld}

\* type User struct {ID, Name, Email}
ZeroUser == [ID |-> 0, Name |-> EmptyStr, Email |-> EmptyStr]

\* a request body: malformed JSON, or a JSON object decoded into a User
\* (an absent field decodes to the zero value)
Malformed == [ok |-> FALSE, ID |-> 0, Name |-> EmptyStr, Email |-> EmptyStr]
BodyIds == {0, 1}
CreateBodies == {Malformed} \cup
    [ok : {TRUE}, ID : BodyIds, Name : {EmptyStr, TwoAccents, Bob}, Email : EmailInputs]
\* an update body supplies a name, or an email, or both; one also carries an id
UpdateBodies == {Malformed} \cup
    [ok : {TRUE}, ID : {0}, Name : {Bo, TwoAccents, Bob}, Email : {EmptyStr}] \cup
    [ok : {TRUE}, ID : {0}, Name : {EmptyStr}, Email : EmailInputs \ {EmptyStr}] \cup
    [ok : {TRUE}, ID : {0, 1}, Name : {Bob}, Email : {EmptyStr, BobMail}]

\* the {id} segment of the path
IdParams == {<<"1">>, <<"1","2">>, <<"-","1">>, <<"a","b","c">>}

\* json.NewDecoder(r.Body).Decode(&v)
Decode(body) == [err |-> ~body.ok,
                 val |-> [ID |-> body.ID, Name |-> body.Name, Email |-> body.Email]]

\* ------------------------------------------------------------------- state
VARIABLES
    store,      \* the users table: id -> [Name, Email]
    seq,        \* last value handed out by the table's id sequence
    dbOpen,     \* the connection pool behind db is open
    mainPc,     \* main: "waiting" at <-stop, "closed" after sqlDB.Close(), "exited"
    pending,    \* bag of the updateUser goroutines that stand before db.Save
    last,       \* the response written last; with it the id of the path, the
                \* updateData it answers and the rows its statement affected
    deleted     \* history: ids whose row a deleteUser removed and answered 204

vars == <<store, seq, dbOpen, mainPc, pending, last, deleted>>

Row(user) == [Name |-> user.Name, Email |-> user.Email]

Remove(tbl, id) == [i \in DOMAIN tbl \ {id} |-> tbl[i]]

Put(tbl, id, row) == [i \in DOMAIN tbl \cup {id} |-> IF i = id THEN row ELSE tbl[i]]

\* ------------------------------------------------------- store operations
\* db.Find(&users)
dbFind == [err |-> ~dbOpen, users |-> IF dbOpen THEN store ELSE <<>>]

\* db.First(&user, id)
dbFirst(id) ==
    IF dbOpen /\ id \in DOMAIN store
    THEN [err |-> FALSE, user |-> [ID |-> id, Name |-> store[id].Name,
                                   Email |-> store[id].Email]]
    ELSE [err |-> TRUE, user |-> ZeroUser]

\* db.Create(&user): a zero ID takes the next value of the sequence, a
\* non-zero ID is inserted as given; a duplicate key is an error
dbCreate(user) ==
    IF ~dbOpen THEN [err |-> TRUE, store |-> store, seq |-> seq, user |-> user]
    ELSE LET id  == IF user.ID = 0 THEN seq + 1 ELSE user.ID
             nsq == IF user.ID = 0 THEN seq + 1 ELSE seq
         IN  IF id \in DOMAIN store
             THEN [err |-> TRUE, store |-> store, seq |-> nsq, user |-> user]
             ELSE [err |-> FALSE, store |-> Put(store, id, Row(user)), seq |-> nsq,
                   user |-> [user EXCEPT !.ID = id]]

\* db.Save(&user) with a non-zero primary key: UPDATE of all columns, and
\* an INSERT of the row when the UPDATE matched none
dbSave(user) ==
    IF ~dbOpen THEN [err |-> TRUE, store |-> store]
    ELSE [err |-> FALSE, store |-> Put(store, user.ID, Row(user))]

\* a Delete that reports a missing row as an error
dbDelete_NotFoundIsError(id) ==
    IF ~dbOpen \/ id \notin DOMAIN store
    THEN [err |-> TRUE, store |-> store, rows |-> 0]
    ELSE [err |-> FALSE, store |-> Remove(store, id), rows |-> 1]

\* db.Delete(&User{}, id): DELETE ... WHERE id = ?; matching no row is no error
dbDelete(id) ==
    IF ~dbOpen THEN [err |-> TRUE, store |-> store, rows |-> 0]
    ELSE [err |-> FALSE, store |-> Remove(store, id),
          rows |-> IF id \in DOMAIN store THEN 1 ELSE 0]

\* ---------------------------------------------------------------- handlers
ZeroRow == [Name |-> EmptyStr, Email |-> EmptyStr]

Response(op, status, id, user, users, rows, updateData) ==
    [op |-> op, status |-> status, id |-> id, user |-> user, users |-> users,
     rows |-> rows, updateData |-> updateData]

\* the listener accepts and a goroutine is free to take the request
Dispatch == mainPc # "exited" /\ BagCardinality(pending) < Workers

Init ==
    /\ store = <<>>
    /\ seq = 0
    /\ dbOpen = TRUE
    /\ mainPc = "waiting"
    /\ pending = EmptyBag
    /\ last = Response("none", 0, 0, ZeroUser, <<>>, 0, ZeroRow)
    /\ deleted = {}

getUsers ==
    /\ Dispatch
    /\ last' = IF dbFind.err
               THEN Response("getUsers", 500, 0, ZeroUser, <<>>, 0, ZeroRow)
               ELSE Response("getUsers", 200, 0, ZeroUser, dbFind.users, 0, ZeroRow)
    /\ UNCHANGED <<store, seq, dbOpen, mainPc, pending, deleted>>

\* createUser's checks of the decoded user
createNameMissing(user) == user.Name = EmptyStr

\* line 72 with && in place of ||: only an empty email is turned away
createEmailInvalid_EmptyOnly(user) == user.Email = EmptyStr

createEmailInvalid(user) == user.Email = EmptyStr \/ ~isValidEmail(user.Email)

createUser(body) ==
    /\ Dispatch
    /\ LET dec  == Decode(body)
           user == dec.val
           res  == dbCreate(user)
       IN  IF dec.err \/ createNameMissing(user) \/ createEmailInvalid(user)
           THEN /\ last' = Response("createUser", 400, 0, ZeroUser, <<>>, 0, ZeroRow)
                /\ UNCHANGED <<store, seq>>
           ELSE /\ (dbOpen /\ user.ID = 0) => seq < MaxSeq
                /\ store' = res.store
                /\ seq' = res.seq
                /\ last' = IF res.err
                           THEN Response("createUser", 500, 0, ZeroUser, <<>>, 0, ZeroRow)
                           ELSE Response("createUser", 201, 0, res.user, <<>>, 0, ZeroRow)
    /\ UNCHANGED <<dbOpen, mainPc, pending, deleted>>

\* updateUser's checks of the decoded updateData
updateNameInvalid(updateData) ==
    updateData.Name # EmptyStr /\ ByteLen(updateData.Name) < 3

updateEmailInvalid(updateData) ==
    updateData.Email # EmptyStr /\ ~isValidEmail(updateData.Email)

\* "Only update fields that are provided"
Merge(user, updateData) ==
    [ID    |-> user.ID,
     Name  |-> IF updateData.Name # EmptyStr THEN updateData.Name ELSE user.Name,
     Email |-> IF updateData.Email # EmptyStr THEN updateData.Email ELSE user.Email]

\* updateUser up to db.Save: parse the id, look the row up, decode, validate, merge
updateUserBegin(idParam, body) ==
    /\ Dispatch
    /\ LET id  == Atoi(idParam)
           fst == dbFirst(id.val)
           dec == Decode(body)
       IN  IF id.err
           THEN /\ last' = Response("updateUser", 400, 0, ZeroUser, <<>>, 0, ZeroRow)
                /\ UNCHANGED pending
           ELSE IF fst.err
           THEN /\ last' = Response("updateUser", 404, 0, ZeroUser, <<>>, 0, ZeroRow)
                /\ UNCHANGED pending
           ELSE IF dec.err \/ updateNameInvalid(dec.val) \/ updateEmailInvalid(dec.val)
           THEN /\ last' = Response("updateUser", 400, 0, ZeroUser, <<>>, 0, ZeroRow)
                /\ UNCHANGED pending
           ELSE /\ pending' = pending (+) SetToBag({[user |-> Merge(fst.user, dec.val),
                                   updateData |-> Row(dec.val)]})
                /\ UNCHANGED last
    /\ UNCHANGED <<store, seq, dbOpen, mainPc, deleted>>

\* the status updateUser writes after db.Save(&user); the result of Save is
\* not looked at
updateStatus(saveErr) == 200

\* updateUser from db.Save on
updateUserSave(p) ==
    /\ mainPc # "exited" /\ BagIn(p, pending)
    /\ LET res == dbSave(p.user)
       IN  /\ store' = res.store
           /\ last' = Response("updateUser", updateStatus(res.err), p.user.ID, p.user,
                               <<>>, 0, p.updateData)
    /\ pending' = pending (-) SetToBag({p})
    /\ UNCHANGED <<seq, dbOpen, mainPc, deleted>>

\* one of the goroutines that stand before db.Save runs on
updateUserFinish == \E p \in BagToSet(pending) : updateUserSave(p)

deleteUser(idParam) ==
    /\ Dispatch
    /\ LET id  == Atoi(idParam)
           res == dbDelete(id.val)
       IN  IF id.err
           THEN /\ last' = Response("deleteUser", 400, 0, ZeroUser, <<>>, 0, ZeroRow)
                /\ UNCHANGED <<store, deleted>>
           ELSE /\ store' = res.store
                /\ last' = Response("deleteUser", IF res.err THEN 500 ELSE 204,
                                    id.val, ZeroUser, <<>>, res.rows, ZeroRow)
                /\ deleted' = IF ~res.err /\ res.rows = 1
                              THEN deleted \cup {id.val} ELSE deleted
    /\ UNCHANGED <<seq, dbOpen, mainPc, pending>>

\* -------------------------------------------------------------------- main
\* the interrupt signal arrives on stop; main gets the *sql.DB and closes it
Shutdown ==
    /\ mainPc = "waiting"
    /\ dbOpen' = FALSE
    /\ mainPc' = "closed"
    /\ UNCHANGED <<store, seq, pending, last, deleted>>

\* main returns: the process, its listener and its goroutines end
Exit ==
    /\ mainPc = "closed"
    /\ mainPc' = "exited"
    /\ pending' = EmptyBag
    /\ UNCHANGED <<store, seq, dbOpen, last, deleted>>

Next ==
    \/ getUsers
    \/ \E body \in CreateBodies : createUser(body)
    \/ \E idParam \in IdParams, body \in UpdateBodies : updateUserBegin(idParam, body)
    \/ updateUserFinish
    \/ \E idParam \in IdParams : deleteUser(idParam)
    \/ Shutdown
    \/ Exit

Spec == Init /\ [][Next]_vars

\* ------------------------------------------------------------------ claims
\* a handler is dispatched for a new request
HandlerDispatch ==
    \/ getUsers
    \/ \E body \in CreateBodies : createUser(body)
    \/ \E idParam \in IdParams, body \in UpdateBodies : updateUserBegin(idParam, body)
    \/ \E idParam \in IdParams : deleteUser(idParam)

\* number of characters of a string
CharLen(s) == Len(s)

\* C1: every persisted row has a non-empty email that matches the pattern,
\* whatever createUser, updateUser and deleteUser requests ran and however
\* they interleaved.
C1_PersistedEmailsValid ==
    \A i \in DOMAIN store :
        store[i].Email # EmptyStr /\ isValidEmail(store[i].Email)

\* an updateUser answered 200 has written the email its body supplied
C1_Witness ==
    /\ last.op = "updateUser" /\ last.status = 200
    /\ last.updateData.Email = BobMail
    /\ last.id \in DOMAIN store
    /\ store[last.id].Email = BobMail

\* C2: once deleteUser has removed the row with id i, no later createUser or
\* updateUser makes a row with id i exist again.
C2_NoIdReuse == deleted \cap DOMAIN store = {}

\* C3: createUser answers 201 and inserts exactly one row exactly when the
\* body decodes to a non-empty name and a non-empty email matching the
\* pattern, the response then carrying a positive id assigned by the store
\* and the submitted name and email; with an empty name or an empty or
\* invalid email it answers 400 and the store is unchanged.
C3_CreateContract ==
    [][\A body \in CreateBodies : createUser(body) =>
        LET valid == /\ body.ok
                     /\ body.Name # EmptyStr
                     /\ body.Email # EmptyStr
                     /\ isValidEmail(body.Email)
        IN  /\ (last'.status = 201) <=> valid
            /\ valid =>
                 /\ seq' = seq + 1
                 /\ last'.user.ID = seq' /\ last'.user.ID > 0
                 /\ last'.user.Name = body.Name /\ last'.user.Email = body.Email
                 /\ last'.user.ID \notin DOMAIN store
                 /\ store' = Put(store, last'.user.ID, Row(body))
            /\ (body.ok /\ ~valid) => (last'.status = 400 /\ store' = store)
      ]_vars

\* C4: an updateUser with a valid body (a name, if supplied, of at least 3
\* characters) that finds its row in place and whose save succeeds changes
\* only the fields its body supplied non-empty: a supplied field is
\* persisted, a field left empty keeps its stored value, the id stays.
C4_UpdateFrame ==
    [][\A p \in BagToSet(pending) :
          ( /\ updateUserSave(p)
            /\ ~dbSave(p.user).err
            /\ p.user.ID \in DOMAIN store
            /\ p.updateData.Name # EmptyStr => CharLen(p.updateData.Name) >= 3 ) =>
            LET id == p.user.ID
            IN  /\ last'.status = 200
                /\ DOMAIN store' = DOMAIN store
                /\ store'[id].Name = IF p.updateData.Name # EmptyStr
                                     THEN p.updateData.Name ELSE store[id].Name
                /\ store'[id].Email = IF p.updateData.Email # EmptyStr
                                      THEN p.updateData.Email ELSE store[id].Email
      ]_vars

\* the request of updateUserBegin is turned away with the given status
Rejected(status) ==
    /\ last'.op = "updateUser" /\ last'.status = status
    /\ store' = store
    /\ pending' = pending

\* C5: a rejected updateUser leaves the store unchanged and gets its status
\* in the order parse id, lookup, decode, validate: non-numeric id 400, id
\* with no row 404, and for an existing id malformed JSON, a non-empty name
\* of fewer than 3 characters or a non-empty email failing the pattern 400.
C5_UpdateRejections ==
    [][\A idParam \in IdParams, body \in UpdateBodies :
          updateUserBegin(idParam, body) =>
            LET id  == Atoi(idParam)
                bad == \/ ~body.ok
                       \/ body.Name # EmptyStr /\ CharLen(body.Name) < 3
                       \/ body.Email # EmptyStr /\ ~isValidEmail(body.Email)
            IN  /\ id.err => Rejected(400)
                /\ (~id.err /\ id.val \notin DOMAIN store) => Rejected(404)
                /\ (~id.err /\ id.val \in DOMAIN store /\ bad) => Rejected(400)
      ]_vars

\* C6: when db.Save fails in updateUser the response is 500, not 200.
C6_SaveFailureIs500 ==
    [][\A p \in BagToSet(pending) :
          (updateUserSave(p) /\ dbSave(p.user).err) => last'.status = 500
      ]_vars

\* C7: after deleteUser answered 204 for an existing id every later getUsers
\* response omits that id; deleteUser with a non-numeric id answers 400 and
\* leaves the store unchanged.
C7_DeletedStaysGone ==
    /\ [](last.op = "getUsers" /\ last.status = 200 =>
            DOMAIN last.users \cap deleted = {})
    /\ [][\A idParam \in IdParams :
            (deleteUser(idParam) /\ Atoi(idParam).err) =>
                (last'.status = 400 /\ store' = store)
         ]_vars

\* deleteUser for an id that parses and has no row
AbsentDelete(idParam) ==
    /\ deleteUser(idParam)
    /\ ~Atoi(idParam).err
    /\ Atoi(idParam).val \notin DOMAIN store

\* C8 as stated: DELETE for an id whose row is already absent is answered
\* 500, the store is unchanged and the server keeps serving.
C8_AbsentDeleteIs500 ==
    [][\A idParam \in IdParams : AbsentDelete(idParam) =>
          /\ last'.status = 500
          /\ store' = store
          /\ mainPc' = mainPc
      ]_vars

\* C8 amended: DELETE for an id whose row is already absent is answered 204
\* while the connection is open, as a first DELETE is, and 500 only when the
\* delete statement itself fails (connection closed); the store is unchanged
\* and the server keeps serving.
C8_AbsentDeleteIs204 ==
    [][\A idParam \in IdParams : AbsentDelete(idParam) =>
          /\ last'.status = IF dbOpen THEN 204 ELSE 500
          /\ store' = store
          /\ mainPc' = mainPc
      ]_vars

\* a DELETE repeated for an id that an earlier DELETE removed was answered 204
C8_Witness ==
    /\ last.op = "deleteUser" /\ last.status = 204 /\ last.rows = 0
    /\ last.id \in deleted
    /\ last.id \notin DOMAIN store

\* C9: no request is accepted or dispatched to a handler after the store
\* connection has been closed.
C9_NoDispatchAfterClose == [][HandlerDispatch => dbOpen]_vars

\* the second of two updates of one row that were in flight together saves:
\* first supplied what the response written last answered, q is the second
BothTookEffect(q) ==
    LET id == q.user.ID
    IN  /\ id \in DOMAIN store'
        /\ store'[id].Name = IF q.updateData.Name # EmptyStr
                             THEN q.updateData.Name ELSE last.updateData.Name
        /\ store'[id].Email = IF q.updateData.Email # EmptyStr
                              THEN q.updateData.Email ELSE last.updateData.Email

\* a supplies only a valid name (at least 3 characters), b only an email
NameOnlyEmailOnly(a, b) ==
    /\ CharLen(a.Name) >= 3 /\ a.Email = EmptyStr
    /\ b.Name = EmptyStr /\ b.Email # EmptyStr

\* one update supplied only a name, the other only an email
Disjoint(a, b) == NameOnlyEmailOnly(a, b) \/ NameOnlyEmailOnly(b, a)

\* C10: two concurrent updateUser requests on one existing user that supply
\* disjoint fields both take effect: when the second answers 200 right after
\* the first, the row holds the new name and the new email.
C10_ConcurrentDisjointUpdates ==
    [][\A q \in BagToSet(pending) :
          ( /\ updateUserSave(q)
            /\ dbOpen
            /\ last.op = "updateUser" /\ last.status = 200
            /\ last.id = q.user.ID
            /\ last.id \in DOMAIN store
            /\ Disjoint(last.updateData, q.updateData) )
          => BothTookEffect(q)
      ]_vars

====
